---- MODULE Spec2Model ----
(***************************************************************************)
(* The shared blackjack board of OmriRitblat/Bust-Furious: the registry    *)
(* of enrolled connections (OneBoard.add_player, called from one thread    *)
(* per accepted connection by ServerMain._handle_oneboard_join) and the    *)
(* round coordinator thread (OneBoard.play_forever).                       *)
(***************************************************************************)
EXTENDS Integers, Sequences, FiniteSets, TLC

(* ------------------------------ bounds -------------------------------- *)
\* connections accepted by the server during one run
NumConns == 2
\* largest round count a Request frame of the model asks for
MaxReqRounds == 2
\* number of deck orders random.shuffle may produce in the model
NumShuffles == 2

(* ------------------------- program constants -------------------------- *)
RESULT_NOT_OVER == 0
RESULT_TIE == 1
RESULT_LOSS == 2
RESULT_WIN == 3
MSG_REQUEST == 3
MSG_PAYLOAD == 4
NumRanks == 13
NumSuits == 4
BustLimit == 21
DealerCap == 17
MaxRounds == 255
HitHeadroom == 20

\* 0xabcddcba, as its four bytes
MAGIC_COOKIE == <<171, 205, 220, 186>>
OtherCookie == <<0, 0, 0, 0>>

Conns == 1..NumConns
None == [ok |-> FALSE]

(* ------------------------------- cards -------------------------------- *)
Card(r, s) == [rank |-> r, suit |-> s]

game_value(c) ==
  IF c.rank = 1 THEN 11
  ELSE IF 2 <= c.rank /\ c.rank <= 10 THEN c.rank
  ELSE 10

RECURSIVE sum_cards(_)
sum_cards(cards) ==
  IF cards = <<>> THEN 0
  ELSE game_value(Head(cards)) + sum_cards(Tail(cards))

DeckSize == NumRanks * NumSuits

\* [Card(rank=r, suit=s) for s in range(4) for r in range(1, 14)]
FreshDeck ==
  [i \in 1..DeckSize |-> Card(((i - 1) % NumRanks) + 1, (i - 1) \div NumRanks)]

\* random.shuffle: the model draws the order from NumShuffles permutations
\* i |-> (i * stride + offset) mod 52, stride coprime to 52.
ShuffleStride(k) == CASE k = 1 -> 11 [] k = 2 -> 3 [] OTHER -> 2 * k + 1
ShuffleOffset(k) == CASE k = 1 -> 7 [] k = 2 -> 1 [] OTHER -> 5 * k
Shuffles == 1..NumShuffles

new_shuffled_deck(k) ==
  [i \in 1..DeckSize |->
     FreshDeck[(((i - 1) * ShuffleStride(k) + ShuffleOffset(k)) % DeckSize) + 1]]

\* the deck after _ensure_deck(needed); k is the order of a new deck
ensure_deck(d, needed, k) ==
  IF Len(d) < needed THEN new_shuffled_deck(k) ELSE d

\* the shuffles _ensure_deck(needed) can choose from (one dummy when no
\* shuffle happens)
ShuffleChoices(d, needed) == IF Len(d) < needed THEN Shuffles ELSE {1}

\* _draw: the card popped from the end, and the deck left
draw(d, k) ==
  LET d2 == ensure_deck(d, 1, k)
  IN  [card |-> d2[Len(d2)], deck |-> SubSeq(d2, 1, Len(d2) - 1)]

\* n successive _draw calls: the cards in draw order, and the deck left
\* (the first half of the calls, then the rest from the deck they leave)
RECURSIVE draw_n(_, _, _)
draw_n(d, n, k) ==
  IF n = 0 THEN [cards |-> <<>>, deck |-> d]
  ELSE IF n = 1
  THEN LET one == draw(d, k)
       IN  [cards |-> <<one.card>>, deck |-> one.deck]
  ELSE LET first == draw_n(d, n \div 2, k)
           rest == draw_n(first.deck, n - n \div 2, k)
       IN  [cards |-> first.cards \o rest.cards, deck |-> rest.deck]

(* ------------------------------ protocol ------------------------------ *)
\* Request frames a client may send: 38 bytes, fields of REQUEST_FMT
RequestName(r) == IF r = MaxReqRounds THEN "" ELSE "ann"
RequestFrames ==
  {[cookie |-> MAGIC_COOKIE, mtype |-> MSG_REQUEST, rounds |-> r,
    name |-> RequestName(r)] : r \in 0..MaxReqRounds}
  \cup [cookie : {OtherCookie}, mtype : {MSG_REQUEST}, rounds : {1}, name : {"ann"}]
  \cup [cookie : {MAGIC_COOKIE}, mtype : {MSG_PAYLOAD}, rounds : {1}, name : {"ann"}]

parse_request(data) ==
  IF data.cookie # MAGIC_COOKIE \/ data.mtype # MSG_REQUEST THEN None
  ELSE [ok |-> TRUE, rounds |-> data.rounds, client_name |-> data.name]

\* Client-Decision frames as the bytes on the wire: PAYLOAD_CLIENT_FMT "!IB5s"
\* is the cookie (4 bytes, big-endian), the type (1 byte), the decision (5 bytes)
ClientPayloadSize == 10
HitttBytes == <<72, 105, 116, 116, 116>>
StandBytes == <<83, 116, 97, 110, 100>>
ClientFrame(cookie, mtype, raw) == cookie \o <<mtype>> \o raw

\* the frames a client may send in the main specification: the two decisions,
\* "Hitt" followed by a byte that is not UTF-8, a wrong cookie, a wrong type
DecisionFrames ==
  {ClientFrame(MAGIC_COOKIE, MSG_PAYLOAD, raw) :
     raw \in {HitttBytes, StandBytes, <<72, 105, 116, 116, 255>>}}
  \cup {ClientFrame(OtherCookie, MSG_PAYLOAD, StandBytes),
        ClientFrame(MAGIC_COOKIE, MSG_REQUEST, HitttBytes)}

\* decision_raw.decode("utf-8", errors="ignore") on bytes that are ASCII or
\* 0xFF: a byte that cannot occur in UTF-8 is left out, ASCII maps to itself
decode_ignore(raw) == SelectSeq(raw, LAMBDA b : b < 128)

\* a parser that does not look at the message type
parse_payload_any_type(data) ==
  IF Len(data) # ClientPayloadSize THEN "None"
  ELSE LET cookie == SubSeq(data, 1, 4)
           decision == decode_ignore(SubSeq(data, 6, ClientPayloadSize))
       IN  IF cookie # MAGIC_COOKIE THEN "None"
           ELSE IF decision = HitttBytes THEN "Hittt"
           ELSE IF decision = StandBytes THEN "Stand"
           ELSE "None"

parse_payload_from_client(data) ==
  IF Len(data) # ClientPayloadSize THEN "None"
  ELSE LET cookie == SubSeq(data, 1, 4)
           mtype == data[5]
           decision == decode_ignore(SubSeq(data, 6, ClientPayloadSize))
       IN  IF cookie # MAGIC_COOKIE \/ mtype # MSG_PAYLOAD THEN "None"
           ELSE IF decision = HitttBytes THEN "Hittt"
           ELSE IF decision = StandBytes THEN "Stand"
           ELSE "None"

\* what _recv_exact returns on an open socket: None (EOF or OSError) or a frame
RecvEOF == [eof |-> TRUE]
\* the same for a Client-Decision read: no bytes stands for None
RecvNone == <<>>

\* _get_decision: "None" for EOF/error/invalid, else the decision
get_decision(data) ==
  IF data = RecvNone THEN "None" ELSE parse_payload_from_client(data)

build_payload_from_server(result, card) ==
  [cookie |-> MAGIC_COOKIE, mtype |-> MSG_PAYLOAD, result |-> result,
   rank |-> card.rank, suit |-> card.suit]

DummyCard == Card(2, 0)

(* ------------------------------ registry ------------------------------ *)
\* remaining_rounds is a dict iterated in insertion order: a sequence of
\* <<conn, rounds>>; stats and player_name are only looked up by key.
DictKeys(d) == [i \in 1..Len(d) |-> d[i][1]]
KeySet(d) == {d[i][1] : i \in 1..Len(d)}
DictGet(d, c) == (CHOOSE i \in 1..Len(d) : d[i][1] = c)
DictVal(d, c) == d[DictGet(d, c)][2]
DictSet(d, c, v) ==
  IF c \in KeySet(d) THEN [d EXCEPT ![DictGet(d, c)] = <<c, v>>]
  ELSE Append(d, <<c, v>>)
\* a pop that takes the last entry when the key is absent (dict.popitem)
DictPopItem(d, c) ==
  IF \E i \in 1..Len(d) : d[i][1] = c
  THEN SelectSeq(d, LAMBDA e : e[1] # c)
  ELSE SubSeq(d, 1, Len(d) - 1)

\* dict.pop(c, None)
DictPop(d, c) == SelectSeq(d, LAMBDA e : e[1] # c)
MapSet(f, c, v) == [k \in DOMAIN f \cup {c} |-> IF k = c THEN v ELSE f[k]]
MapPop(f, c) == [k \in DOMAIN f \ {c} |-> f[k]]
SeqSet(s) == {s[i] : i \in 1..Len(s)}
SeqRemove(s, c) == SelectSeq(s, LAMBDA e : e # c)

RoundResults == [dealer_wins |-> 0, client_wins |-> 0, ties |-> 0]

\* a clamp that forgets the lower bound: min(req.rounds, 255)
ClampRoundsNoFloor(r) == IF r < MaxRounds THEN r ELSE MaxRounds

\* rounds = max(1, min(req.rounds, 255))
ClampRounds(r) ==
  LET m == IF r < MaxRounds THEN r ELSE MaxRounds
  IN  IF m > 1 THEN m ELSE 1

\* name = req.client_name or "client"
NameOf(n) == IF n = "" THEN "client" ELSE n

\* conns = [c for c, r in self.remaining_rounds.items() if r > 0]
SnapshotEligible(d) == DictKeys(SelectSeq(d, LAMBDA e : e[2] > 0))

\* a reaping scan that keeps the records with no round left: if r < 0
FinishedBelowZero(d) == DictKeys(SelectSeq(d, LAMBDA e : e[2] < 0))

\* finished = [c for c, r in self.remaining_rounds.items() if r <= 0]
Finished(d) == DictKeys(SelectSeq(d, LAMBDA e : e[2] <= 0))

(* ----------------------------- game logic ----------------------------- *)
\* GameLogic.dealer_should_hit(dealer_total, players_hands)
BestPlayer(hands) ==
  LET totals == {sum_cards(hands[c]) : c \in DOMAIN hands}
      ok == {t \in totals : t <= BustLimit} \cup {0}
  IN  CHOOSE m \in ok : \A t \in ok : t <= m

dealer_should_hit(dtotal, hands) ==
  IF dtotal > DealerCap THEN FALSE
  ELSE IF BestPlayer(hands) = 0 THEN FALSE
  ELSE dtotal <= BestPlayer(hands)

\* a settlement that does not look at the dealer's bust
SettleResultNoBust(dtotal, ptotal) ==
  IF ptotal > dtotal THEN RESULT_WIN
  ELSE IF dtotal > ptotal THEN RESULT_LOSS
  ELSE RESULT_TIE

\* result of the Settling comparison
SettleResult(dtotal, ptotal) ==
  IF dtotal > BustLimit THEN RESULT_WIN
  ELSE IF ptotal > dtotal THEN RESULT_WIN
  ELSE IF dtotal > ptotal THEN RESULT_LOSS
  ELSE RESULT_TIE

(* ------------------------------- state -------------------------------- *)
VARIABLES
  deck,              \* self.deck
  remaining_rounds,  \* self.remaining_rounds
  stats,             \* self.stats
  player_name,       \* self.player_name
  consumed,          \* per record: rounds decremented from it since it enrolled
  lock,              \* holder of self.cond: "free", "coord" or "enroll"
  notified,          \* the coordinator, waiting in cond.wait(), was notified
  closed,            \* connections the server has closed
  epc,               \* per connection: position of its enrollment thread
  req,               \* per connection: rounds and name, locals of add_player
  pc,                \* position of play_forever
  conns,             \* snapshot of the round
  players_hands,
  dealer_hand,
  dealer_total,
  active,
  todo,              \* rest of the list the current for loop iterates over
  sub,               \* _send_initial_hands: payloads already tried for Head(todo)
  result,            \* Settling: result of Head(todo)
  sent,              \* per connection: payloads handed to _send this round
  failed,            \* connections with a failed send or read this round
  recvd,             \* per connection: decisions _get_decision returned this round
  client             \* per connection: the process at the other end of the socket

vars ==
  <<deck, remaining_rounds, stats, player_name, consumed, lock, notified, closed, epc, req,
    pc, conns, players_hands, dealer_hand, dealer_total, active, todo, sub,
    result, sent, failed, recvd, client>>

\* a peer that is not ClientMain.py: what it sends is drawn from the sample
\* frames, what it reads is not looked at
Peer == [pc |-> "peer", got |-> <<>>]

regVars == <<remaining_rounds, stats, player_name, consumed>>
enrollVars == <<epc, req>>
roundVars == <<conns, players_hands, dealer_hand, dealer_total, active>>
logVars == <<sent, failed, recvd>>

Init ==
  /\ \E k \in Shuffles : deck = new_shuffled_deck(k)
  /\ remaining_rounds = <<>>
  /\ stats = <<>>
  /\ player_name = <<>>
  /\ consumed = <<>>
  /\ lock = "free"
  /\ notified = FALSE
  /\ closed = {}
  /\ epc = [c \in Conns |-> "idle"]
  /\ req = [c \in Conns |-> None]
  /\ pc = "wait_lock"
  /\ conns = <<>>
  /\ players_hands = <<>>
  /\ dealer_hand = <<>>
  /\ dealer_total = 0
  /\ active = <<>>
  /\ todo = <<>>
  /\ sub = 0
  /\ result = RESULT_NOT_OVER
  /\ sent = [c \in Conns |-> <<>>]
  /\ failed = {}
  /\ recvd = [c \in Conns |-> <<>>]
  /\ client = [c \in Conns |-> Peer]

(* ---------------------------- shared steps ----------------------------- *)
\* _drop_player(conn): close the socket, pop the three maps (no lock taken)
drop_player(conn) ==
  /\ closed' = closed \cup {conn}
  /\ remaining_rounds' = DictPop(remaining_rounds, conn)
  /\ stats' = MapPop(stats, conn)
  /\ player_name' = MapPop(player_name, conn)
  /\ consumed' = MapPop(consumed, conn)

\* outcomes of _send(data, conn): sendall on a socket the server has closed
\* raises OSError (False); on an open socket it succeeds or fails
SendOutcomes(conn) == IF conn \in closed THEN {FALSE} ELSE {TRUE, FALSE}

\* the traffic log of the round: every payload handed to _send, and the
\* connections on which a send or a read has failed
Logged(conn, res, card) ==
  [sent EXCEPT ![conn] = Append(@, build_payload_from_server(res, card))]

Failed(conn, ok) == IF ok THEN failed ELSE failed \cup {conn}

(* ------------------- enrollment: one thread per connection ------------ *)
\* ServerMain.run accepts the connections one after the other and starts a
\* thread running _handle_oneboard_join for each; add_player reads one
\* Request frame, parses it and computes rounds and name (lines 86-98).
\* Connections are numbered in the order in which their frames are read.
AddPlayerRecv(c) ==
  /\ epc[c] = "idle"
  /\ \A b \in Conns : b < c => epc[b] # "idle"
  /\ \E data \in RequestFrames \cup {RecvEOF} :
       LET r == IF data = RecvEOF THEN None ELSE parse_request(data)
       IN  IF r = None
           THEN /\ epc' = [epc EXCEPT ![c] = "rejected"]
                /\ req' = req
           ELSE /\ epc' = [epc EXCEPT ![c] = "parsed"]
                /\ req' = [req EXCEPT ![c] =
                             [ok |-> TRUE, rounds |-> ClampRounds(r.rounds),
                              name |-> NameOf(r.client_name)]]
  /\ UNCHANGED <<deck, regVars, lock, notified, closed, pc, roundVars, todo, sub,
                 result, logVars>>
  /\ UNCHANGED client

\* add_player without the condition's lock around its three inserts
AddPlayerNoLock(c) ==
  /\ epc[c] = "parsed"
  /\ epc' = [epc EXCEPT ![c] = "locked"]
  /\ UNCHANGED <<deck, regVars, lock, notified, closed, req, pc, roundVars, todo,
                 sub, result, logVars>>
  /\ UNCHANGED client

\* with self.cond: (acquire)
AddPlayerLock(c) ==
  /\ epc[c] = "parsed"
  /\ lock = "free"
  /\ lock' = "enroll"
  /\ epc' = [epc EXCEPT ![c] = "locked"]
  /\ UNCHANGED <<deck, regVars, notified, closed, req, pc, roundVars, todo, sub,
                 result, logVars>>
  /\ UNCHANGED client

\* body of the with block: three inserts, conn.getpeername() for the log
\* line, notify_all. getpeername raises OSError when the peer has reset the
\* connection: the with block is left (lock released) before notify_all.
AddPlayerInsert(c) ==
  /\ epc[c] = "locked"
  /\ remaining_rounds' = DictSet(remaining_rounds, c, req[c].rounds)
  /\ stats' = MapSet(stats, c, RoundResults)
  /\ player_name' = MapSet(player_name, c, req[c].name)
  /\ consumed' = MapSet(consumed, c, 0)
  /\ \E peer_ok \in BOOLEAN :
       IF peer_ok
       THEN /\ notified' = (notified \/ pc = "waiting")
            /\ epc' = [epc EXCEPT ![c] = "joined"]
       ELSE /\ notified' = notified
            /\ epc' = [epc EXCEPT ![c] = "raised"]
  /\ lock' = "free"
  /\ req' = [req EXCEPT ![c] = None]
  /\ UNCHANGED <<deck, closed, pc, roundVars, todo, sub, result, logVars>>
  /\ UNCHANGED client

\* _handle_oneboard_join: except Exception: conn.close()
HandleJoinExcept(c) ==
  /\ epc[c] = "raised"
  /\ closed' = closed \cup {c}
  /\ epc' = [epc EXCEPT ![c] = "handled"]
  /\ UNCHANGED <<deck, regVars, lock, notified, req, pc, roundVars, todo, sub,
                 result, logVars>>
  /\ UNCHANGED client

Enroll ==
  \E c \in Conns :
    \/ AddPlayerRecv(c)
    \/ AddPlayerLock(c)
    \/ AddPlayerInsert(c)
    \/ HandleJoinExcept(c)

(* ------------------- play_forever: waiting and snapshot --------------- *)
\* with self.cond: (acquire), line 141
WaitLock ==
  /\ pc = "wait_lock"
  /\ lock = "free"
  /\ lock' = "coord"
  /\ pc' = "wait_check"
  /\ UNCHANGED <<deck, regVars, notified, closed, enrollVars, roundVars, todo,
                 sub, result, logVars>>
  /\ UNCHANGED client

\* while len(self.remaining_rounds) == 0: self.cond.wait()  (releases the lock)
WaitBlock ==
  /\ pc = "wait_check"
  /\ Len(remaining_rounds) = 0
  /\ lock' = "free"
  /\ notified' = FALSE
  /\ pc' = "waiting"
  /\ UNCHANGED <<deck, regVars, closed, enrollVars, roundVars, todo, sub, result,
                 logVars>>
  /\ UNCHANGED client

\* cond.wait() returns: notified, and the lock re-acquired
WaitWake ==
  /\ pc = "waiting"
  /\ notified
  /\ lock = "free"
  /\ lock' = "coord"
  /\ notified' = FALSE
  /\ pc' = "wait_check"
  /\ UNCHANGED <<deck, regVars, closed, enrollVars, roundVars, todo, sub, result,
                 logVars>>
  /\ UNCHANGED client

\* the snapshot, line 147; an empty snapshot loops back (lines 149-150)
Snapshot ==
  /\ pc = "wait_check"
  /\ Len(remaining_rounds) # 0
  /\ conns' = SnapshotEligible(remaining_rounds)
  /\ lock' = "free"
  /\ pc' = IF conns' = <<>> THEN "wait_lock" ELSE "deal"
  /\ UNCHANGED <<deck, regVars, notified, closed, enrollVars, players_hands,
                 dealer_hand, dealer_total, active, todo, sub, result, logVars>>
  /\ UNCHANGED client

(* ------------------------ play_forever: dealing ----------------------- *)
\* lines 153-161: _ensure_deck(2 * len(conns) + 2 + 20), two cards per
\* snapshotted player in snapshot order, then two for the dealer
Deal ==
  /\ pc = "deal"
  /\ LET needed == 2 * Len(conns) + 2 + HitHeadroom
     IN  \E k \in ShuffleChoices(deck, needed) :
           LET got == draw_n(ensure_deck(deck, needed, k), 2 * Len(conns) + 2, k)
           IN  /\ deck' = got.deck
               /\ players_hands' =
                    [c \in SeqSet(conns) |->
                       LET i == CHOOSE j \in 1..Len(conns) : conns[j] = c
                       IN  <<got.cards[2 * i - 1], got.cards[2 * i]>>]
               /\ dealer_hand' =
                    <<got.cards[2 * Len(conns) + 1], got.cards[2 * Len(conns) + 2]>>
  /\ pc' = "dec_lock"
  /\ UNCHANGED <<regVars, lock, notified, closed, enrollVars, conns, dealer_total,
                 active, todo, sub, result, logVars>>
  /\ UNCHANGED client

\* with self.cond: (acquire), line 164
DecLock ==
  /\ pc = "dec_lock"
  /\ lock = "free"
  /\ lock' = "coord"
  /\ pc' = "dec"
  /\ UNCHANGED <<deck, regVars, notified, closed, enrollVars, roundVars, todo,
                 sub, result, logVars>>
  /\ UNCHANGED client

\* a decrement that walks the registry instead of the snapshot:
\* for c in self.remaining_rounds: self.remaining_rounds[c] -= 1
DecrementEveryRecord(d, cs) == [i \in 1..Len(d) |-> <<d[i][1], d[i][2] - 1>>]

\* for c in conns: if c in self.remaining_rounds: self.remaining_rounds[c] -= 1
DecrementAll(d, cs) ==
  [i \in 1..Len(d) |->
     IF d[i][1] \in SeqSet(cs) THEN <<d[i][1], d[i][2] - 1>> ELSE d[i]]

Decrement ==
  /\ pc = "dec"
  /\ remaining_rounds' = DecrementAll(remaining_rounds, conns)
  /\ consumed' = [c \in DOMAIN consumed |->
                    IF c \in SeqSet(conns) THEN consumed[c] + 1 ELSE consumed[c]]
  /\ lock' = "free"
  /\ todo' = conns
  /\ sub' = 0
  /\ pc' = "init_send"
  /\ UNCHANGED <<deck, stats, player_name, notified, closed, enrollVars, roundVars,
                 result, logVars>>
  /\ UNCHANGED client

\* an initial hand whose third payload is the dealer's hidden card
InitialPayloadHidden(c, n) ==
  IF n < 2 THEN players_hands[c][n + 1] ELSE dealer_hand[2]

\* _send_initial_hands: for Head(todo) its two cards, then the dealer's
\* up-card; a failed send drops the player and the loop goes on
InitialPayload(c, n) ==
  IF n < 2 THEN players_hands[c][n + 1] ELSE dealer_hand[1]

SendInitial ==
  /\ pc = "init_send"
  /\ todo # <<>>
  /\ LET c == Head(todo)
         card == InitialPayload(c, sub)
     IN  \E ok \in SendOutcomes(c) :
           /\ sent' = Logged(c, RESULT_NOT_OVER, card)
           /\ failed' = Failed(c, ok)
           /\ IF ok THEN UNCHANGED <<regVars, closed>> ELSE drop_player(c)
  /\ IF sub = 2
     THEN todo' = Tail(todo) /\ sub' = 0
     ELSE todo' = todo /\ sub' = sub + 1
  /\ UNCHANGED <<deck, lock, notified, enrollVars, pc, roundVars, result, recvd>>
  /\ UNCHANGED client

\* the turns taken in reverse snapshot order: for conn in reversed(active):
InitialDoneReversed ==
  /\ pc = "init_send"
  /\ todo = <<>>
  /\ active' = conns
  /\ todo' = [i \in 1..Len(conns) |-> conns[Len(conns) + 1 - i]]
  /\ pc' = "turn"
  /\ UNCHANGED <<deck, regVars, lock, notified, closed, enrollVars, conns,
                 players_hands, dealer_hand, dealer_total, sub, result, logVars>>
  /\ UNCHANGED client

\* active = list(conns); for conn in list(active):
InitialDone ==
  /\ pc = "init_send"
  /\ todo = <<>>
  /\ active' = conns
  /\ todo' = conns
  /\ pc' = "turn"
  /\ UNCHANGED <<deck, regVars, lock, notified, closed, enrollVars, conns,
                 players_hands, dealer_hand, dealer_total, sub, result, logVars>>
  /\ UNCHANGED client

(* ---------------------- play_forever: player turns -------------------- *)
\* _recv_exact calls conn.settimeout(None) outside its try block: on a
\* socket the server has already closed it raises OSError, which nothing in
\* play_forever catches
TurnCrash ==
  /\ pc = "turn"
  /\ todo # <<>>
  /\ Head(todo) \in closed
  /\ pc' = "crashed"
  /\ UNCHANGED <<deck, regVars, lock, notified, closed, enrollVars, roundVars,
                 todo, sub, result, logVars>>
  /\ UNCHANGED client

\* one pass of the while True loop of lines 179-214 for Head(todo), the
\* client's bytes drawn from frames
TurnDecisionOf(frames) ==
  /\ pc = "turn"
  /\ todo # <<>>
  /\ Head(todo) \notin closed
  /\ LET conn == Head(todo)
     IN  \E data \in frames \cup {RecvNone} :
           LET decision == get_decision(data)
           IN  /\ recvd' = [recvd EXCEPT ![conn] = Append(@, decision)]
               /\ CASE decision = "None" ->
                         /\ drop_player(conn)
                         /\ failed' = failed \cup {conn}
                         /\ active' = SeqRemove(active, conn)
                         /\ todo' = Tail(todo)
                         /\ UNCHANGED <<deck, players_hands, sent, pc>>
                    [] decision = "Stand" ->
                         /\ todo' = Tail(todo)
                         /\ UNCHANGED <<deck, regVars, closed, players_hands,
                                        active, sent, failed, pc>>
                    [] OTHER ->
                         \E k \in ShuffleChoices(deck, 1), ok \in SendOutcomes(conn) :
                           LET one == draw(deck, k)
                               hand == Append(players_hands[conn], one.card)
                               hit == Logged(conn, RESULT_NOT_OVER, one.card)
                           IN  /\ deck' = one.deck
                               /\ players_hands' = [players_hands EXCEPT ![conn] = hand]
                               /\ IF ~ok
                                  THEN /\ sent' = hit
                                       /\ failed' = failed \cup {conn}
                                       /\ drop_player(conn)
                                       /\ active' = SeqRemove(active, conn)
                                       /\ todo' = Tail(todo)
                                       /\ pc' = pc
                                  ELSE IF sum_cards(hand) > BustLimit
                                  THEN \E ok2 \in {TRUE, FALSE} :
                                         /\ sent' =
                                              [hit EXCEPT ![conn] =
                                                 Append(@, build_payload_from_server(RESULT_LOSS, DummyCard))]
                                         /\ failed' = Failed(conn, ok2)
                                         /\ pc' = "bust_lock"
                                         /\ UNCHANGED <<regVars, closed, active, todo>>
                                  ELSE /\ sent' = hit
                                       /\ UNCHANGED <<regVars, closed, active, todo,
                                                      failed, pc>>
  /\ UNCHANGED <<lock, notified, enrollVars, conns, dealer_hand, dealer_total, sub,
                 result>>
  /\ UNCHANGED client

TurnDecision == TurnDecisionOf(DecisionFrames)

\* with self.cond: (acquire), line 210
BustLock ==
  /\ pc = "bust_lock"
  /\ lock = "free"
  /\ lock' = "coord"
  /\ pc' = "bust_stat"
  /\ UNCHANGED <<deck, regVars, notified, closed, enrollVars, roundVars, todo,
                 sub, result, logVars>>
  /\ UNCHANGED client

\* a stats update through setdefault: self.stats.setdefault(conn, RoundResults())
record_outcome_setdefault(st, conn, res) ==
  LET st0 == IF conn \in DOMAIN st THEN st ELSE MapSet(st, conn, RoundResults)
  IN  IF res = RESULT_WIN
      THEN [st0 EXCEPT ![conn].client_wins = @ + 1]
      ELSE IF res = RESULT_LOSS
      THEN [st0 EXCEPT ![conn].dealer_wins = @ + 1]
      ELSE [st0 EXCEPT ![conn].ties = @ + 1]

\* a stats update without the final else branch: a tie is not recorded
record_outcome_no_tie(st, conn, res) ==
  IF conn \notin DOMAIN st THEN st
  ELSE IF res = RESULT_WIN
       THEN [st EXCEPT ![conn].client_wins = @ + 1]
  ELSE IF res = RESULT_LOSS
       THEN [st EXCEPT ![conn].dealer_wins = @ + 1]
  ELSE st

\* the stats update of one outcome: if conn in self.stats: ... += 1
record_outcome(st, conn, res) ==
  IF conn \notin DOMAIN st THEN st
  ELSE IF res = RESULT_WIN
       THEN [st EXCEPT ![conn].client_wins = @ + 1]
  ELSE IF res = RESULT_LOSS
       THEN [st EXCEPT ![conn].dealer_wins = @ + 1]
  ELSE [st EXCEPT ![conn].ties = @ + 1]

\* lines 211-214 without active.remove(conn): the busted player stays active
BustStatKeepsActive ==
  /\ pc = "bust_stat"
  /\ stats' = record_outcome(stats, Head(todo), RESULT_LOSS)
  /\ lock' = "free"
  /\ todo' = Tail(todo)
  /\ pc' = "turn"
  /\ UNCHANGED <<deck, remaining_rounds, player_name, consumed, notified, closed,
                 enrollVars, roundVars, sub, result, logVars>>
  /\ UNCHANGED client

\* lines 211-214: dealer win recorded, player leaves the active list
BustStat ==
  /\ pc = "bust_stat"
  /\ stats' = record_outcome(stats, Head(todo), RESULT_LOSS)
  /\ lock' = "free"
  /\ active' = SeqRemove(active, Head(todo))
  /\ todo' = Tail(todo)
  /\ pc' = "turn"
  /\ UNCHANGED <<deck, remaining_rounds, player_name, consumed, notified, closed,
                 enrollVars, conns, players_hands, dealer_hand, dealer_total, sub, result,
                 logVars>>
  /\ UNCHANGED client

\* a wait for decisions that gives up: the dealer turn starts while players
\* of the snapshot have not had their turn
TurnsDoneOnTimeout ==
  /\ pc = "turn"
  /\ todo' = active
  /\ pc' = "reveal"
  /\ UNCHANGED <<deck, regVars, lock, notified, closed, enrollVars, roundVars,
                 sub, result, logVars>>
  /\ UNCHANGED client

\* the for loop of line 176 is over: for conn in list(active): (line 217)
TurnsDone ==
  /\ pc = "turn"
  /\ todo = <<>>
  /\ todo' = active
  /\ pc' = "reveal"
  /\ UNCHANGED <<deck, regVars, lock, notified, closed, enrollVars, roundVars,
                 sub, result, logVars>>
  /\ UNCHANGED client

(* ----------------------- play_forever: dealer turn -------------------- *)
\* lines 217-220: the hidden card to Head(todo); a failed send drops it
Reveal ==
  /\ pc = "reveal"
  /\ todo # <<>>
  /\ LET conn == Head(todo)
     IN  \E ok \in SendOutcomes(conn) :
           /\ sent' = Logged(conn, RESULT_NOT_OVER, dealer_hand[2])
           /\ failed' = Failed(conn, ok)
           /\ IF ok
              THEN UNCHANGED <<regVars, closed, active>>
              ELSE drop_player(conn) /\ active' = SeqRemove(active, conn)
  /\ todo' = Tail(todo)
  /\ UNCHANGED <<deck, lock, notified, enrollVars, pc, conns, players_hands,
                 dealer_hand, dealer_total, sub, result, recvd>>
  /\ UNCHANGED client

\* line 222: dealer_total = self._sum_cards(dealer_hand)
RevealDone ==
  /\ pc = "reveal"
  /\ todo = <<>>
  /\ dealer_total' = sum_cards(dealer_hand)
  /\ pc' = "dealer_loop"
  /\ UNCHANGED <<deck, regVars, lock, notified, closed, enrollVars, conns,
                 players_hands, dealer_hand, active, todo, sub, result, logVars>>
  /\ UNCHANGED client

\* lines 225-231 without line 228: the dealer's total is not recomputed
DealerHitStaleTotal ==
  /\ pc = "dealer_loop"
  /\ dealer_should_hit(dealer_total, players_hands)
  /\ \E k \in ShuffleChoices(deck, 1) :
       LET one == draw(deck, k)
       IN  /\ deck' = one.deck
           /\ dealer_hand' = Append(dealer_hand, one.card)
           /\ dealer_total' = dealer_total
  /\ todo' = active
  /\ pc' = "dealer_send"
  /\ UNCHANGED <<regVars, lock, notified, closed, enrollVars, conns,
                 players_hands, active, sub, result, logVars>>
  /\ UNCHANGED client

\* lines 225-231: the loop condition holds: one more card for the dealer
DealerHit ==
  /\ pc = "dealer_loop"
  /\ dealer_should_hit(dealer_total, players_hands)
  /\ \E k \in ShuffleChoices(deck, 1) :
       LET one == draw(deck, k)
       IN  /\ deck' = one.deck
           /\ dealer_hand' = Append(dealer_hand, one.card)
           /\ dealer_total' = sum_cards(Append(dealer_hand, one.card))
  /\ todo' = active
  /\ pc' = "dealer_send"
  /\ UNCHANGED <<regVars, lock, notified, closed, enrollVars, conns,
                 players_hands, active, sub, result, logVars>>
  /\ UNCHANGED client

\* lines 231-234: the dealer's new card to Head(todo)
DealerSend ==
  /\ pc = "dealer_send"
  /\ todo # <<>>
  /\ LET conn == Head(todo)
     IN  \E ok \in SendOutcomes(conn) :
           /\ sent' = Logged(conn, RESULT_NOT_OVER, dealer_hand[Len(dealer_hand)])
           /\ failed' = Failed(conn, ok)
           /\ IF ok
              THEN UNCHANGED <<regVars, closed, active>>
              ELSE drop_player(conn) /\ active' = SeqRemove(active, conn)
  /\ todo' = Tail(todo)
  /\ UNCHANGED <<deck, lock, notified, enrollVars, pc, conns, players_hands,
                 dealer_hand, dealer_total, sub, result, recvd>>
  /\ UNCHANGED client

DealerSendDone ==
  /\ pc = "dealer_send"
  /\ todo = <<>>
  /\ pc' = "dealer_loop"
  /\ UNCHANGED <<deck, regVars, lock, notified, closed, enrollVars, roundVars,
                 todo, sub, result, logVars>>
  /\ UNCHANGED client

\* the loop condition fails: for conn in list(active): (line 237)
DealerStop ==
  /\ pc = "dealer_loop"
  /\ ~dealer_should_hit(dealer_total, players_hands)
  /\ todo' = active
  /\ pc' = "settle"
  /\ UNCHANGED <<deck, regVars, lock, notified, closed, enrollVars, roundVars,
                 sub, result, logVars>>
  /\ UNCHANGED client

(* ------------------------ play_forever: settling ---------------------- *)
\* lines 238-251: the result of Head(todo), sent with a dummy card; the
\* outcome of the send is not looked at
SettleSend ==
  /\ pc = "settle"
  /\ todo # <<>>
  /\ LET conn == Head(todo)
         res == SettleResult(dealer_total, sum_cards(players_hands[conn]))
     IN  /\ result' = res
         /\ sent' = Logged(conn, res, DummyCard)
         /\ \E ok \in SendOutcomes(conn) : failed' = Failed(conn, ok)
  /\ pc' = "settle_lock"
  /\ UNCHANGED <<deck, regVars, lock, notified, closed, enrollVars, roundVars,
                 todo, sub, recvd>>
  /\ UNCHANGED client

\* with self.cond: (acquire), line 253
SettleLock ==
  /\ pc = "settle_lock"
  /\ lock = "free"
  /\ lock' = "coord"
  /\ pc' = "settle_stat"
  /\ UNCHANGED <<deck, regVars, notified, closed, enrollVars, roundVars, todo,
                 sub, result, logVars>>
  /\ UNCHANGED client

\* lines 254-260
SettleStat ==
  /\ pc = "settle_stat"
  /\ stats' = record_outcome(stats, Head(todo), result)
  /\ lock' = "free"
  /\ todo' = Tail(todo)
  /\ pc' = "settle"
  /\ UNCHANGED <<deck, remaining_rounds, player_name, consumed, notified, closed,
                 enrollVars, roundVars, sub, result, logVars>>
  /\ UNCHANGED client

SettleDone ==
  /\ pc = "settle"
  /\ todo = <<>>
  /\ pc' = "reap_lock"
  /\ UNCHANGED <<deck, regVars, lock, notified, closed, enrollVars, roundVars,
                 todo, sub, result, logVars>>
  /\ UNCHANGED client

(* ------------------------- play_forever: reaping ---------------------- *)
\* with self.cond: (acquire), line 265
ReapLock ==
  /\ pc = "reap_lock"
  /\ lock = "free"
  /\ lock' = "coord"
  /\ pc' = "reap_scan"
  /\ UNCHANGED <<deck, regVars, notified, closed, enrollVars, roundVars, todo,
                 sub, result, logVars>>
  /\ UNCHANGED client

\* line 266, and the lock released
ReapScan ==
  /\ pc = "reap_scan"
  /\ todo' = Finished(remaining_rounds)
  /\ lock' = "free"
  /\ pc' = "reap"
  /\ UNCHANGED <<deck, regVars, notified, closed, enrollVars, roundVars, sub,
                 result, logVars>>
  /\ UNCHANGED client

\* lines 267-271: _drop_player(c, "finished rounds")
Reap ==
  /\ pc = "reap"
  /\ todo # <<>>
  /\ drop_player(Head(todo))
  /\ todo' = Tail(todo)
  /\ UNCHANGED <<deck, lock, notified, enrollVars, pc, roundVars, sub, result,
                 logVars>>
  /\ UNCHANGED client

\* back to while True (line 139). The locals of the finished round are dead
\* (each is assigned again before it is next read): they and the round's
\* traffic log are cleared here.
ReapDone ==
  /\ pc = "reap"
  /\ todo = <<>>
  /\ pc' = "wait_lock"
  /\ conns' = <<>>
  /\ players_hands' = <<>>
  /\ dealer_hand' = <<>>
  /\ dealer_total' = 0
  /\ active' = <<>>
  /\ result' = RESULT_NOT_OVER
  /\ sent' = [c \in Conns |-> <<>>]
  /\ failed' = {}
  /\ recvd' = [c \in Conns |-> <<>>]
  /\ UNCHANGED <<deck, regVars, lock, notified, closed, enrollVars, todo, sub>>
  /\ UNCHANGED client

Coordinator ==
  \/ WaitLock \/ WaitBlock \/ WaitWake \/ Snapshot
  \/ Deal \/ DecLock \/ Decrement \/ SendInitial \/ InitialDone
  \/ TurnCrash \/ TurnDecision \/ BustLock \/ BustStat \/ TurnsDone
  \/ Reveal \/ RevealDone \/ DealerHit \/ DealerSend \/ DealerSendDone \/ DealerStop
  \/ SettleSend \/ SettleLock \/ SettleStat \/ SettleDone
  \/ ReapLock \/ ReapScan \/ Reap \/ ReapDone

Next == Enroll \/ Coordinator

Spec == Init /\ [][Next]_vars

TypeOK ==
  /\ lock \in {"free", "coord", "enroll"}
  /\ notified \in BOOLEAN
  /\ closed \subseteq Conns
  /\ KeySet(remaining_rounds) \subseteq Conns
  /\ DOMAIN stats \subseteq Conns
  /\ DOMAIN player_name \subseteq Conns
  /\ DOMAIN consumed = KeySet(remaining_rounds)
  /\ SeqSet(todo) \subseteq Conns
  /\ DOMAIN client = Conns

(* ------------- the dealer loop, from any hands and any deck ----------- *)
\* The state of play_forever when it reaches line 225, for hands and decks
\* that the two shuffles of Spec do not produce: every player of the
\* snapshot has stood on a two-card hand, the dealer holds two cards, and at
\* most MaxLeft cards are left in the deck, so that _draw reshuffles inside
\* the loop.
MaxLeft == 3

PlayerRanks == {1, 2, 6, 10}
DealerRanks == {1, 2, 3, 5, 7, 10}

\* two-card hands of one suit, lower rank first
HandsOf(ranks, suit) ==
  {<<Card(p[1], suit), Card(p[2], suit)>> :
     p \in {q \in ranks \X ranks : q[1] < q[2]}}

InitDealer ==
  /\ \E k \in Shuffles, m \in 0..MaxLeft :
       deck = SubSeq(new_shuffled_deck(k), 1, m)
  /\ remaining_rounds = [c \in Conns |-> <<c, 0>>]
  /\ stats = [c \in Conns |-> RoundResults]
  /\ player_name = [c \in Conns |-> "ann"]
  /\ consumed = [c \in Conns |-> 1]
  /\ lock = "free"
  /\ notified = FALSE
  /\ closed = {}
  /\ epc = [c \in Conns |-> "joined"]
  /\ req = [c \in Conns |-> None]
  /\ pc = "dealer_loop"
  /\ conns = [c \in Conns |-> c]
  /\ players_hands \in
       {h \in [Conns -> UNION {HandsOf(PlayerRanks, s) : s \in 0..NumSuits - 2}] :
          \A c \in Conns : h[c][1].suit = (c - 1) % (NumSuits - 1)}
  /\ dealer_hand \in HandsOf(DealerRanks, NumSuits - 1)
  /\ dealer_total = sum_cards(dealer_hand)
  /\ active = [c \in Conns |-> c]
  /\ todo = <<>>
  /\ sub = 0
  /\ result = RESULT_NOT_OVER
  /\ sent = [c \in Conns |-> <<>>]
  /\ failed = {}
  /\ recvd = [c \in Conns |-> <<"Stand">>]
  /\ client = [c \in Conns |-> Peer]

NextDealer == DealerHit \/ DealerSend \/ DealerSendDone \/ DealerStop

\* play_forever is a running thread and nothing in the loop blocks
SpecDealer == InitDealer /\ [][NextDealer]_vars /\ WF_vars(NextDealer)

(* ------------------- the deal, for snapshots of any size -------------- *)
\* The state of play_forever when it reaches line 153 with a snapshot of
\* 1..MaxPlayers connections (more than Spec enrolls) and any number of
\* cards left in the deck.
MaxPlayers == 26

InitDeal ==
  /\ \E k \in Shuffles, m \in 0..DeckSize :
       deck = SubSeq(new_shuffled_deck(k), 1, m)
  /\ \E n \in 1..MaxPlayers :
       /\ conns = [i \in 1..n |-> i]
       /\ remaining_rounds = [i \in 1..n |-> <<i, 1>>]
       /\ stats = [c \in 1..n |-> RoundResults]
       /\ player_name = [c \in 1..n |-> "ann"]
       /\ consumed = [c \in 1..n |-> 0]
  /\ lock = "free"
  /\ notified = FALSE
  /\ closed = {}
  /\ epc = [c \in Conns |-> "joined"]
  /\ req = [c \in Conns |-> None]
  /\ pc = "deal"
  /\ players_hands = <<>>
  /\ dealer_hand = <<>>
  /\ dealer_total = 0
  /\ active = <<>>
  /\ todo = <<>>
  /\ sub = 0
  /\ result = RESULT_NOT_OVER
  /\ sent = [c \in Conns |-> <<>>]
  /\ failed = {}
  /\ recvd = [c \in Conns |-> <<>>]
  /\ client = [c \in Conns |-> Peer]

NextDeal == Deal

SpecDeal == InitDeal /\ [][NextDeal]_vars

(* --------------- the player turns, for any bytes a client sends -------- *)
\* The decision field over a sample of bytes: 'H', 'h', 'i', 't' and 0xFF,
\* and near misses of "Stand"
ByteSample == {72, 104, 105, 116, 255}
StandNearMisses ==
  {StandBytes, <<115, 116, 97, 110, 100>>, <<83, 116, 97, 110, 255>>,
   <<83, 116, 97, 110, 68>>, <<255, 83, 116, 97, 110>>, <<83, 116, 97, 110, 32>>,
   <<32, 32, 32, 32, 32>>, <<0, 0, 0, 0, 0>>}
RawFields == [1..5 -> ByteSample] \cup StandNearMisses

\* every 10-byte frame _recv_exact can hand to the parser: a decision field of
\* RawFields under the right header, the two decisions under every header
AllDecisionFrames ==
  {ClientFrame(MAGIC_COOKIE, MSG_PAYLOAD, raw) : raw \in RawFields}
  \cup {ClientFrame(cookie, mtype, raw) :
          cookie \in {MAGIC_COOKIE, OtherCookie, <<171, 205, 220, 187>>},
          mtype \in {0, MSG_REQUEST, MSG_PAYLOAD, 5},
          raw \in {HitttBytes, StandBytes}}

\* byte strings of another length, which only a direct call can pass
WrongLengthFrames ==
  UNION {{SubSeq(f, 1, ClientPayloadSize - 1), f \o <<116>>, SubSeq(f, 6, ClientPayloadSize)} :
           f \in {ClientFrame(MAGIC_COOKIE, MSG_PAYLOAD, HitttBytes),
                  ClientFrame(MAGIC_COOKIE, MSG_PAYLOAD, StandBytes)}}

\* the state at line 176: a round of all connections, one round requested,
\* dealt from a fresh deck, every initial payload delivered
InitDecode ==
  /\ \E k \in Shuffles :
       LET got == draw_n(new_shuffled_deck(k), 2 * NumConns + 2, k)
       IN  /\ deck = got.deck
           /\ players_hands = [c \in Conns |-> <<got.cards[2 * c - 1], got.cards[2 * c]>>]
           /\ dealer_hand = <<got.cards[2 * NumConns + 1], got.cards[2 * NumConns + 2]>>
           /\ sent = [c \in Conns |->
                        <<build_payload_from_server(RESULT_NOT_OVER, got.cards[2 * c - 1]),
                          build_payload_from_server(RESULT_NOT_OVER, got.cards[2 * c]),
                          build_payload_from_server(RESULT_NOT_OVER, got.cards[2 * NumConns + 1])>>]
  /\ conns = [i \in 1..NumConns |-> i]
  /\ remaining_rounds = [i \in 1..NumConns |-> <<i, 0>>]
  /\ stats = [c \in Conns |-> RoundResults]
  /\ player_name = [c \in Conns |-> "ann"]
  /\ consumed = [c \in Conns |-> 1]
  /\ lock = "free"
  /\ notified = FALSE
  /\ closed = {}
  /\ epc = [c \in Conns |-> "joined"]
  /\ req = [c \in Conns |-> None]
  /\ pc = "turn"
  /\ dealer_total = 0
  /\ active = conns
  /\ todo = conns
  /\ sub = 0
  /\ result = RESULT_NOT_OVER
  /\ failed = {}
  /\ recvd = [c \in Conns |-> <<>>]
  /\ client = [c \in Conns |-> Peer]

TurnDecisionAny == TurnDecisionOf(AllDecisionFrames)

NextDecode == TurnDecisionAny \/ BustLock \/ BustStat \/ TurnsDone

SpecDecode == InitDecode /\ [][NextDecode]_vars

(* -------- the guarded registry updates, for any registry and snapshot ---- *)
\* The decrement of lines 164-167 and the stats updates of lines 210-212 and
\* 253-260, started with the lock held, from every registry over Conns (any
\* subset of the connections holding a record) and every snapshot
StatSample ==
  {RoundResults, [dealer_wins |-> 1, client_wins |-> 0, ties |-> 1]}
SnapshotOrders == {<<1>>, <<2>>, <<1, 2>>, <<2, 1>>}

InitNoop ==
  /\ \E K \in SUBSET Conns, rr \in [Conns -> 1..MaxReqRounds],
        st \in [Conns -> StatSample] :
       /\ remaining_rounds =
            SelectSeq([i \in 1..NumConns |-> <<i, rr[i]>>], LAMBDA e : e[1] \in K)
       /\ stats = [c \in K |-> st[c]]
       /\ player_name = [c \in K |-> "ann"]
       /\ consumed = [c \in K |-> 0]
       /\ closed = Conns \ K
  /\ \E k \in Shuffles :
       LET got == draw_n(new_shuffled_deck(k), 2 * NumConns + 2, k)
       IN  /\ deck = got.deck
           /\ players_hands = [c \in Conns |-> <<got.cards[2 * c - 1], got.cards[2 * c]>>]
           /\ dealer_hand = <<got.cards[2 * NumConns + 1], got.cards[2 * NumConns + 2]>>
  /\ conns \in SnapshotOrders
  /\ pc \in {"dec", "bust_stat", "settle_stat"}
  /\ IF pc = "dec"
     THEN active = <<>> /\ todo = <<>> /\ result = RESULT_NOT_OVER
     ELSE /\ active = conns
          /\ todo = conns
          /\ result \in (IF pc = "bust_stat" THEN {RESULT_LOSS}
                         ELSE {RESULT_TIE, RESULT_LOSS, RESULT_WIN})
  /\ lock = "coord"
  /\ notified = FALSE
  /\ epc = [c \in Conns |-> "joined"]
  /\ req = [c \in Conns |-> None]
  /\ dealer_total = 0
  /\ sub = 0
  /\ sent = [c \in Conns |-> <<>>]
  /\ failed = Conns \ KeySet(remaining_rounds)
  /\ recvd = [c \in Conns |-> <<>>]
  /\ client = [c \in Conns |-> Peer]

NextNoop == Decrement \/ BustStat \/ SettleStat

SpecNoop == InitNoop /\ [][NextNoop]_vars

(* ------------- a round from the player turns on, for any hands ---------- *)
\* The state at line 176 after a deal from a deck whose top cards are the
\* hands below: the first player may hold two aces, the others and the
\* dealer two cards of sample ranks; the rest of the deck is in shuffled order
AcePair == <<Card(1, 0), Card(1, 1)>>
StandHands(c) ==
  (IF c = 1 THEN {AcePair} ELSE {}) \cup HandsOf({6, 10}, (c - 1) % (NumSuits - 1))
    \cup HandsOf({2, 3}, (c - 1) % (NumSuits - 1))
StandDealerHands == HandsOf({2, 7, 10}, NumSuits - 1)

InitStand ==
  /\ players_hands \in {h \in [Conns -> UNION {StandHands(c) : c \in Conns}] :
                          \A c \in Conns : h[c] \in StandHands(c)}
  /\ dealer_hand \in StandDealerHands
  /\ \E k \in Shuffles :
       deck = SelectSeq(new_shuffled_deck(k),
                        LAMBDA card :
                          /\ card \notin SeqSet(dealer_hand)
                          /\ \A c \in Conns : card \notin SeqSet(players_hands[c]))
  /\ sent = [c \in Conns |->
               <<build_payload_from_server(RESULT_NOT_OVER, players_hands[c][1]),
                 build_payload_from_server(RESULT_NOT_OVER, players_hands[c][2]),
                 build_payload_from_server(RESULT_NOT_OVER, dealer_hand[1])>>]
  /\ conns = [i \in 1..NumConns |-> i]
  /\ remaining_rounds = [i \in 1..NumConns |-> <<i, 0>>]
  /\ stats = [c \in Conns |-> RoundResults]
  /\ player_name = [c \in Conns |-> "ann"]
  /\ consumed = [c \in Conns |-> 1]
  /\ lock = "free"
  /\ notified = FALSE
  /\ closed = {}
  /\ epc = [c \in Conns |-> "joined"]
  /\ req = [c \in Conns |-> None]
  /\ pc = "turn"
  /\ dealer_total = 0
  /\ active = conns
  /\ todo = conns
  /\ sub = 0
  /\ result = RESULT_NOT_OVER
  /\ failed = {}
  /\ recvd = [c \in Conns |-> <<>>]
  /\ client = [c \in Conns |-> Peer]

NextStand ==
  \/ TurnDecision \/ BustLock \/ BustStat \/ TurnsDone
  \/ Reveal \/ RevealDone
  \/ DealerHit \/ DealerSend \/ DealerSendDone \/ DealerStop
  \/ SettleSend \/ SettleLock \/ SettleStat \/ SettleDone

SpecStand == InitStand /\ [][NextStand]_vars

(* ------------- the board with ClientMain.py at the other end ------------ *)
\* Every connection is a process running src/client/ClientMain.py main(): it
\* has connected, sent its Request for 1..MaxReqRounds rounds (line 183) and
\* is about to call play_round(conn, 1) (line 186); the server has enrolled
\* all of them.
InitClient ==
  /\ \E k \in Shuffles : deck = new_shuffled_deck(k)
  /\ \E rounds \in [Conns -> 1..MaxReqRounds] :
       remaining_rounds = [i \in 1..NumConns |-> <<i, ClampRounds(rounds[i])>>]
  /\ stats = [c \in Conns |-> RoundResults]
  /\ player_name = [c \in Conns |-> "ann"]
  /\ consumed = [c \in Conns |-> 0]
  /\ lock = "free"
  /\ notified = FALSE
  /\ closed = {}
  /\ epc = [c \in Conns |-> "joined"]
  /\ req = [c \in Conns |-> None]
  /\ pc = "wait_lock"
  /\ conns = <<>>
  /\ players_hands = <<>>
  /\ dealer_hand = <<>>
  /\ dealer_total = 0
  /\ active = <<>>
  /\ todo = <<>>
  /\ sub = 0
  /\ result = RESULT_NOT_OVER
  /\ sent = [c \in Conns |-> <<>>]
  /\ failed = {}
  /\ recvd = [c \in Conns |-> <<>>]
  /\ client = [c \in Conns |-> [pc |-> "play_round", got |-> <<>>]]

\* play_round, line 66: struct.calcsize(Protocol.PAYLOAD_FMT). The client's
\* Protocol class has PAYLOAD_CLIENT_FMT and PAYLOAD_SERVER_FMT but no
\* PAYLOAD_FMT: the attribute lookup raises AttributeError before the first
\* read, main() does not catch it, and the process ends (its socket closes)
ClientPlayRound(c) ==
  /\ client[c].pc = "play_round"
  /\ client' = [client EXCEPT ![c].pc = "raised"]
  /\ UNCHANGED <<deck, regVars, lock, notified, closed, enrollVars, pc, roundVars,
                 todo, sub, result, logVars>>

\* _get_decision on the socket of a client process: the client sends no
\* decision, so the read blocks until the process has ended, and then
\* returns no bytes. Every player of a round is removed this way (or the
\* coordinator ends on a closed socket), so the loops over the active
\* players that follow (reveal, dealer sends, settlement) and the reaping
\* loop have nothing to iterate over.
TurnDecisionClient ==
  /\ pc = "turn"
  /\ todo # <<>>
  /\ client[Head(todo)].pc = "raised"
  /\ TurnDecisionOf({})

NextClient ==
  \/ \E c \in Conns : ClientPlayRound(c)
  \/ WaitLock \/ WaitBlock \/ Snapshot
  \/ Deal \/ DecLock \/ Decrement \/ SendInitial \/ InitialDone
  \/ TurnCrash \/ TurnDecisionClient \/ TurnsDone
  \/ RevealDone \/ DealerHit \/ DealerSendDone \/ DealerStop
  \/ SettleDone
  \/ ReapLock \/ ReapScan \/ ReapDone

SpecClient == InitClient /\ [][NextClient]_vars

(* ---------------- the last player's turn at a crowded table ------------- *)
\* With 16 or more players _ensure_deck asks for more than 52 cards, so every
\* round starts from a new deck. The state at line 176 for MinSeats..MaxSeats
\* players dealt from a new deck, every initial payload delivered, when all
\* players but the last have answered Stand and the last player's turn begins
MinSeats == 22
MaxSeats == 25

InitSeats ==
  /\ \E n \in MinSeats..MaxSeats, k \in Shuffles :
       LET got == draw_n(new_shuffled_deck(k), 2 * n + 2, k)
       IN  /\ deck = got.deck
           /\ conns = [i \in 1..n |-> i]
           /\ players_hands = [c \in 1..n |-> <<got.cards[2 * c - 1], got.cards[2 * c]>>]
           /\ dealer_hand = <<got.cards[2 * n + 1], got.cards[2 * n + 2]>>
           /\ sent = [c \in 1..n |->
                        <<build_payload_from_server(RESULT_NOT_OVER, got.cards[2 * c - 1]),
                          build_payload_from_server(RESULT_NOT_OVER, got.cards[2 * c]),
                          build_payload_from_server(RESULT_NOT_OVER, got.cards[2 * n + 1])>>]
           /\ remaining_rounds = [i \in 1..n |-> <<i, 0>>]
           /\ stats = [c \in 1..n |-> RoundResults]
           /\ player_name = [c \in 1..n |-> "ann"]
           /\ consumed = [c \in 1..n |-> 1]
           /\ active = [i \in 1..n |-> i]
           /\ todo = <<n>>
           /\ recvd = [c \in 1..n |-> IF c < n THEN <<"Stand">> ELSE <<>>]
  /\ lock = "free"
  /\ notified = FALSE
  /\ closed = {}
  /\ epc = [c \in Conns |-> "joined"]
  /\ req = [c \in Conns |-> None]
  /\ pc = "turn"
  /\ dealer_total = 0
  /\ sub = 0
  /\ result = RESULT_NOT_OVER
  /\ failed = {}
  /\ client = [c \in Conns |-> Peer]

NextSeats == TurnDecision \/ BustLock \/ BustStat \/ TurnsDone

SpecSeats == InitSeats /\ [][NextSeats]_vars

(* ============================== claims =============================== *)
Registered == KeySet(remaining_rounds) \cup DOMAIN stats \cup DOMAIN player_name
Total(c) == sum_cards(players_hands[c])
Last(s) == s[Len(s)]

\* the players that are active when the dealer turn starts are those whose
\* turn ended with Stand
ActiveAtDealerStart ==
  {c \in SeqSet(conns) : recvd[c] # <<>> /\ Last(recvd[c]) = "Stand"}

DealerPhase == {"reveal", "dealer_loop", "dealer_send"}

\* the rule of the specification: hit while the dealer is at most 21 and at
\* most the best total (<= 21) of a still-active player
RuleSaysHit ==
  /\ dealer_total <= BustLimit
  /\ \E c \in SeqSet(active) : Total(c) <= BustLimit /\ dealer_total <= Total(c)

\* C1: whenever play_forever evaluates the condition of the dealer loop, the
\* decision of GameLogic.dealer_should_hit is the specification's rule: hit
\* exactly while dealerTotal <= 21 and dealerTotal <= the best total (<= 21)
\* among the still-active players, with no other cap.
C1_DealerRule ==
  pc = "dealer_loop" =>
    (dealer_should_hit(dealer_total, players_hands) <=> RuleSaysHit)

\* C2: if no player that is active at the start of the dealer turn has a
\* total <= 21, the dealer draws no card in that round (its hand keeps the
\* two dealt cards).
C2_NoActiveNoDraw ==
  (pc \in DealerPhase /\ \A c \in ActiveAtDealerStart : Total(c) > BustLimit)
    => Len(dealer_hand) = 2

\* C3: whatever fails on a single connection, play_forever keeps running.
C3_LoopNeverTerminates == pc # "crashed"

\* C4: between two steps of a round, every connection on which a send or a
\* read has failed in the round is out of the active set and out of the
\* Registry, with its socket closed, and every other snapshotted connection
\* is still enrolled.
RoundCheckpoints ==
  {"turn", "reveal", "dealer_loop", "dealer_send", "settle", "reap_lock"}

C4_FailureRemoves ==
  pc \in RoundCheckpoints =>
    /\ \A c \in failed :
         c \notin Registered /\ c \in closed /\ c \notin SeqSet(active)
    /\ \A c \in SeqSet(conns) \ failed : c \in KeySet(remaining_rounds)

\* C5: after a failed enrollment (EOF or a Request that does not decode) the
\* connection has no entry in any registry map and has been closed by
\* add_player or _handle_oneboard_join.
C5_RejectedClosed ==
  \A c \in Conns : epc[c] = "rejected" => (c \notin Registered /\ c \in closed)

\* C6: no missed wakeup: the coordinator is never blocked in cond.wait(),
\* un-notified, with the lock free, while the Registry is non-empty.
C6_NoMissedWakeup ==
  ~(pc = "waiting" /\ ~notified /\ lock = "free" /\ Len(remaining_rounds) > 0)

\* C7: every step that changes one of the three registry maps is taken by a
\* thread that holds the registry lock.
C7_RegistryUnderLock ==
  [][(remaining_rounds' # remaining_rounds \/ stats' # stats
        \/ player_name' # player_name)
       => (IF epc' # epc THEN lock = "enroll" ELSE lock = "coord")]_vars

\* C8: enrollments concurrent with a round are never lost and do not perturb
\* it: an enrollment inserts its record with the requested (clamped) rounds;
\* a snapshot holds every enrolled connection; the snapshot does not change
\* during its round; and a connection outside the snapshot gets no card, no
\* payload, no decrement, no stat update and is not removed.
C8_Step ==
  /\ \A c \in Conns :
       (epc[c] = "locked" /\ epc'[c] # "locked") =>
         /\ c \in KeySet(remaining_rounds')
         /\ DictVal(remaining_rounds', c) = req[c].rounds
         /\ stats'[c] = RoundResults
  /\ (pc = "wait_check" /\ pc' \in {"deal", "wait_lock"}) =>
       SeqSet(conns') = KeySet(remaining_rounds)
  /\ (pc # "wait_check" /\ pc' # "wait_lock") => conns' = conns
  /\ \A c \in Conns \ SeqSet(conns) :
       /\ c \in KeySet(remaining_rounds) =>
            /\ c \in KeySet(remaining_rounds')
            /\ DictVal(remaining_rounds', c) = DictVal(remaining_rounds, c)
       /\ c \in DOMAIN stats => (c \in DOMAIN stats' /\ stats'[c] = stats[c])
       /\ c \in DOMAIN player_name =>
            (c \in DOMAIN player_name' /\ player_name'[c] = player_name[c])
       /\ sent'[c] = sent[c]
       /\ recvd'[c] = recvd[c]
       /\ c \notin DOMAIN players_hands'

C8_EnrollDuringRound == [][C8_Step]_vars

\* a record enrolled while a round it is not part of is in Settling
C8_Witness ==
  /\ pc \in {"settle", "settle_lock", "settle_stat"}
  /\ todo # <<>>
  /\ \E c \in Conns \ SeqSet(conns) :
       epc[c] = "joined" /\ c \in KeySet(remaining_rounds)

\* C9: remainingRounds is always in 0..255; it is in 1..255 right after
\* enrollment; it changes only by a decrement of one, in the decrement step
\* of a round, for a connection of the round's snapshot whose count was > 0.
C9_Range ==
  \A i \in 1..Len(remaining_rounds) :
    remaining_rounds[i][2] \in 0..MaxRounds

C9_Step ==
  \A c \in Conns :
    /\ (c \notin KeySet(remaining_rounds) /\ c \in KeySet(remaining_rounds'))
         => DictVal(remaining_rounds', c) \in 1..MaxRounds
    /\ (/\ c \in KeySet(remaining_rounds)
        /\ c \in KeySet(remaining_rounds')
        /\ DictVal(remaining_rounds', c) # DictVal(remaining_rounds, c))
         => /\ DictVal(remaining_rounds', c) = DictVal(remaining_rounds, c) - 1
            /\ DictVal(remaining_rounds, c) > 0
            /\ c \in SeqSet(conns)
            /\ pc = "dec" /\ pc' = "init_send"

C9_RemainingRounds == []C9_Range /\ [][C9_Step]_vars

\* a record enrolled for one round, after the decrement of that round
C9_Witness ==
  /\ pc = "init_send"
  /\ \E c \in SeqSet(conns) :
       c \in KeySet(remaining_rounds) /\ DictVal(remaining_rounds, c) = 0
  /\ \E c \in SeqSet(conns) :
       c \in KeySet(remaining_rounds) /\ DictVal(remaining_rounds, c) = 1

\* C10: no registry map holds an entry for a connection the server has
\* closed, and the three maps have the same key set.
C10_RecordsOpen ==
  /\ \A c \in Registered : c \notin closed
  /\ KeySet(remaining_rounds) = DOMAIN stats
  /\ DOMAIN stats = DOMAIN player_name

\* C11: every player of a round that is still enrolled when the round's
\* Settling is over has had exactly one of client_wins, dealer_wins, ties
\* raised by one in that round (a busted player its dealer win, and nothing
\* more); so outside the rounds it plays in, the three counters of a record
\* add up to the number of rounds the record has consumed.
StatSum(c) == stats[c].client_wins + stats[c].dealer_wins + stats[c].ties

BetweenRounds ==
  {"wait_lock", "wait_check", "waiting", "deal", "dec_lock", "dec",
   "reap_lock", "reap_scan", "reap"}

C11_Balanced ==
  \A c \in DOMAIN stats \cap DOMAIN consumed :
    (pc \in BetweenRounds \/ c \notin SeqSet(conns)) => StatSum(c) = consumed[c]

C11_Step ==
  \A c \in DOMAIN stats \cap DOMAIN stats' :
    stats'[c] # stats[c] =>
      /\ c \in SeqSet(conns)
      /\ c \in DOMAIN consumed /\ StatSum(c) = consumed[c] - 1
      /\ \/ stats'[c] = [stats[c] EXCEPT !.client_wins = @ + 1]
         \/ stats'[c] = [stats[c] EXCEPT !.dealer_wins = @ + 1]
         \/ stats'[c] = [stats[c] EXCEPT !.ties = @ + 1]

C11_OneOutcomePerRound == []C11_Balanced /\ [][C11_Step]_vars

\* Settling of a record's second round is over; in this round it busted
C11_Witness ==
  /\ pc = "reap_lock"
  /\ \E c \in SeqSet(conns) \cap DOMAIN stats :
       /\ consumed[c] = 2 /\ StatSum(c) = 2
       /\ recvd[c] # <<>> /\ Last(recvd[c]) = "Hittt" /\ Total(c) > BustLimit

\* C12: when a hit (whose card was sent) brings a player's total above 21,
\* the server sends the hit card and right after it the terminal loss
\* payload, records one dealer win and takes the player out of the active
\* list: nothing more is sent to it in the round (no reveal, no dealer hit,
\* no Settling result). Its record stays in the Registry, and leaves it only
\* in Reaping with no round left.
BustPayload == build_payload_from_server(RESULT_LOSS, DummyCard)

Busted(c) ==
  /\ c \in SeqSet(conns)
  /\ recvd[c] # <<>> /\ Last(recvd[c]) = "Hittt"
  /\ Total(c) > BustLimit
  /\ sent[c] # <<>> /\ Last(sent[c]) = BustPayload

C12_Inv ==
  \A c \in Conns :
    Busted(c) =>
      /\ pc # "reap" => c \in KeySet(remaining_rounds)
      /\ pc \notin {"bust_lock", "bust_stat"} =>
           /\ c \notin SeqSet(active)
           /\ c \in DOMAIN stats =>
                (stats[c].dealer_wins >= 1 /\ StatSum(c) = consumed[c])

C12_Step ==
  /\ \A c \in DOMAIN players_hands \cap DOMAIN players_hands' :
       (/\ Len(players_hands'[c]) > Len(players_hands[c])
        /\ sum_cards(players_hands'[c]) > BustLimit
        /\ c \in KeySet(remaining_rounds')) =>
         /\ sent'[c] =
              sent[c] \o <<build_payload_from_server(RESULT_NOT_OVER,
                                                     Last(players_hands'[c])),
                           BustPayload>>
         /\ pc' = "bust_lock" /\ Head(todo') = c
  /\ (pc = "bust_stat" /\ pc' # pc) =>
       stats'[Head(todo)] = [stats[Head(todo)] EXCEPT !.dealer_wins = @ + 1]
  /\ \A c \in Conns :
       Busted(c) =>
         /\ sent'[c] \in {sent[c], <<>>}
         /\ (c \in KeySet(remaining_rounds) /\ c \notin KeySet(remaining_rounds'))
              => (pc = "reap" /\ DictVal(remaining_rounds, c) <= 0)

C12_Bust == []C12_Inv /\ [][C12_Step]_vars

\* Settling is over: one player busted and is still enrolled, another one
\* stayed active and got its result
C12_Witness ==
  /\ pc = "reap_lock"
  /\ \E c \in Conns : Busted(c) /\ c \in KeySet(remaining_rounds)
  /\ \E d \in SeqSet(active) :
       sent[d] # <<>> /\ Last(sent[d]).result # RESULT_NOT_OVER

\* C13: a player whose decision cannot be read or is not a decision is
\* dropped from the Registry and from the active list at once, with its
\* socket closed, and the coordinator has moved on to the next player of the
\* snapshot; once the round is over (Settling done, or play_forever ended),
\* every other player of the active list has been sent exactly one terminal
\* result.
DecisionFailed(c) ==
  c \in SeqSet(conns) /\ recvd[c] # <<>> /\ Last(recvd[c]) = "None"

Terminals(c) ==
  Cardinality({i \in 1..Len(sent[c]) : sent[c][i].result # RESULT_NOT_OVER})

RoundOver == pc \in {"reap_lock", "reap_scan", "reap", "crashed"}

C13_DecisionFailure ==
  \A a \in Conns :
    DecisionFailed(a) =>
      /\ a \notin Registered /\ a \in closed /\ a \notin SeqSet(active)
      /\ pc = "turn" => a \notin SeqSet(todo)
      /\ RoundOver => \A b \in SeqSet(active) \ {a} : Terminals(b) = 1

\* C14: in Settling the result sent to each active player, and the counter
\* raised for it, follow the rule: client win when the dealer's total is
\* above 21; otherwise client win when the player's total is higher, client
\* loss when the dealer's is higher, tie when they are equal. The counter
\* raised is the one of the result sent.
C14_Inv ==
  pc \in {"settle_lock", "settle_stat"} =>
    LET c == Head(todo)
        p == Total(c)
        d == dealer_total
    IN  /\ d = sum_cards(dealer_hand)
        /\ Last(sent[c]) = build_payload_from_server(result, DummyCard)
        /\ d > BustLimit => result = RESULT_WIN
        /\ (d <= BustLimit /\ p > d) => result = RESULT_WIN
        /\ (d <= BustLimit /\ d > p) => result = RESULT_LOSS
        /\ (d <= BustLimit /\ d = p) => result = RESULT_TIE

C14_Step ==
  (pc = "settle_stat" /\ pc' # pc) =>
    LET c == Head(todo)
    IN  /\ c \in DOMAIN stats /\ c \in DOMAIN stats'
        /\ result = RESULT_WIN =>
             stats'[c] = [stats[c] EXCEPT !.client_wins = @ + 1]
        /\ result = RESULT_LOSS =>
             stats'[c] = [stats[c] EXCEPT !.dealer_wins = @ + 1]
        /\ result = RESULT_TIE =>
             stats'[c] = [stats[c] EXCEPT !.ties = @ + 1]
        /\ result \in {RESULT_WIN, RESULT_LOSS, RESULT_TIE}

C14_Settle == []C14_Inv /\ [][C14_Step]_vars

\* the dealer has busted and the result of an active player is being recorded
C14_Witness ==
  /\ pc = "settle_stat"
  /\ dealer_total > BustLimit
  /\ Total(Head(todo)) <= BustLimit
  /\ result = RESULT_WIN

\* C15: a round is taken from every snapshotted record when it is dealt;
\* outside the span from the decrement to the end of Reaping every record has
\* remaining_rounds > 0; Reaping removes exactly the records with
\* remaining_rounds = 0 and closes their connections; and a player whose
\* connection has not failed is never left enrolled by a coordinator that
\* has stopped (it plays all the rounds it enrolled for and is then removed).
Healthy(c) == c \notin closed /\ c \notin failed /\ epc[c] = "joined"

Reaped == pc = "reap" /\ todo = <<>>

C15_Rounds ==
  /\ pc \in {"init_send", "turn", "reap_lock"} =>
       \A c \in SeqSet(conns) \cap DOMAIN consumed : consumed[c] >= 1
  /\ (pc \in {"wait_lock", "wait_check", "waiting", "deal", "dec_lock", "dec"}
        \/ Reaped) =>
       \A i \in 1..Len(remaining_rounds) : remaining_rounds[i][2] > 0
  /\ pc = "reap" =>
       \A c \in SeqSet(todo) :
         c \in KeySet(remaining_rounds) => DictVal(remaining_rounds, c) = 0
  /\ Reaped =>
       \A c \in SeqSet(conns) :
         \/ c \in KeySet(remaining_rounds)
         \/ c \in closed /\ c \notin Registered
  /\ pc = "crashed" => \A c \in KeySet(remaining_rounds) : ~Healthy(c)

\* C16: the dealer loop ends, for any two-card hands of the dealer and of the
\* players, also when the deck runs out and is reshuffled inside the loop:
\* the dealer draws at most 52 cards, every draw raises the dealer's total,
\* and play_forever reaches Settling.
C16_Progress ==
  dealer_hand' # dealer_hand =>
    /\ Len(dealer_hand') = Len(dealer_hand) + 1
    /\ dealer_total' > dealer_total
    /\ dealer_total' = sum_cards(dealer_hand')

C16_DealerLoopEnds ==
  /\ [](Len(dealer_hand) <= 2 + DeckSize)
  /\ [][C16_Progress]_vars
  /\ <>(pc = "settle")

\* the loop has ended after a draw that found the deck empty
C16_Witness ==
  /\ pc = "settle"
  /\ Len(dealer_hand) > 2
  /\ Len(deck) > MaxLeft

\* C17: the cards dealt at the start of a round (two to each snapshotted
\* player, two to the dealer) are pairwise distinct cards of the 52-card
\* deck; every fresh deck holds each of the 52 (rank, suit) pairs exactly
\* once; and a draw from an empty deck gives a card (of a new deck).
AllCards == {Card(r, s) : r \in 1..NumRanks, s \in 0..NumSuits - 1}

DealtCards ==
  {players_hands[c][i] : c \in DOMAIN players_hands, i \in 1..2}
    \cup {dealer_hand[i] : i \in 1..Len(dealer_hand)}

C17_DealDistinct ==
  /\ pc = "dec_lock" =>
       /\ DealtCards \subseteq AllCards
       /\ Cardinality(DealtCards) = 2 * Len(conns) + 2
  /\ \A k \in Shuffles :
       /\ Len(new_shuffled_deck(k)) = DeckSize
       /\ SeqSet(new_shuffled_deck(k)) = AllCards
       /\ draw(<<>>, k).card \in AllCards
  /\ \A i, j \in 1..Len(deck) : i # j => deck[i] # deck[j]

\* C18: in a round a player is sent at most one terminal payload and nothing
\* after it (so no not-over payload after a bust), and once the round is
\* over (Settling done, or play_forever ended) every player of the snapshot
\* whose connection has not failed has been sent exactly one.
StaysConnected(c) == c \in SeqSet(conns) /\ c \notin failed /\ c \notin closed

C18_OneTerminal ==
  \A c \in SeqSet(conns) :
    /\ Terminals(c) <= 1
    /\ Terminals(c) = 1 => Last(sent[c]).result # RESULT_NOT_OVER
    /\ (RoundOver /\ StaysConnected(c)) => Terminals(c) = 1

\* C19: the turns are taken one after the other in snapshot order: a
\* decision is read from (and a hit card sent to) the player at position j
\* only when the turn of every player before it has ended by Stand, bust or
\* removal; at most one turn is in progress, that of the player the
\* coordinator is at; and no payload of the dealer turn is sent before every
\* turn has ended.
Hits(c) == Cardinality({i \in 1..Len(recvd[c]) : recvd[c][i] = "Hittt"})

NotOvers(c) ==
  Cardinality({i \in 1..Len(sent[c]) : sent[c][i].result = RESULT_NOT_OVER})

TurnStarted(c) == recvd[c] # <<>>

TurnEnded(c) ==
  /\ recvd[c] # <<>>
  /\ \/ Last(recvd[c]) \in {"Stand", "None"}
     \/ Last(recvd[c]) = "Hittt" /\ Total(c) > BustLimit
     \/ Last(recvd[c]) = "Hittt" /\ c \in failed /\ c \notin Registered

\* more not-over payloads than the three of the deal and one per hit
DealerTurnSent(c) == NotOvers(c) > 3 + Hits(c)

C19_TurnOrder ==
  /\ \A i, j \in 1..Len(conns) :
       (i < j /\ TurnStarted(conns[j])) => TurnEnded(conns[i])
  /\ \A c \in SeqSet(conns) :
       (TurnStarted(c) /\ ~TurnEnded(c)) =>
         (pc \in {"turn", "crashed"} /\ Head(todo) = c)
  /\ (\E c \in SeqSet(conns) : DealerTurnSent(c)) =>
       \A c \in SeqSet(conns) : TurnEnded(c)

\* the dealer turn has sent a payload to the second player; the first
\* player had hit before its turn ended
C19_Witness ==
  /\ Len(conns) = 2
  /\ Hits(conns[1]) >= 1 /\ TurnEnded(conns[1])
  /\ DealerTurnSent(conns[2])

\* C20: in Dealing every snapshotted player is sent exactly three not-over
\* payloads, in the order own first card, own second card, dealer's
\* up-card, before a decision is read from any player; and the dealer's
\* second card is sent to nobody before the dealer turn.
InitialThree(c) ==
  <<build_payload_from_server(RESULT_NOT_OVER, players_hands[c][1]),
    build_payload_from_server(RESULT_NOT_OVER, players_hands[c][2]),
    build_payload_from_server(RESULT_NOT_OVER, dealer_hand[1])>>

BeforeDealerTurn == {"init_send", "turn", "bust_lock", "bust_stat", "crashed"}

AnyDecisionRead == \E c \in Conns : recvd[c] # <<>>

C20_InitialHands ==
  /\ pc = "init_send" =>
       /\ ~AnyDecisionRead
       /\ \A c \in SeqSet(conns) :
            /\ Len(sent[c]) <= 3
            /\ sent[c] = SubSeq(InitialThree(c), 1, Len(sent[c]))
            /\ (c \in SeqSet(todo) /\ c # Head(todo)) => sent[c] = <<>>
            /\ c \notin SeqSet(todo) => Len(sent[c]) = 3
  /\ (pc = "turn" /\ ~AnyDecisionRead) =>
       \A c \in SeqSet(conns) : sent[c] = InitialThree(c)
  /\ AnyDecisionRead =>
       \A c \in SeqSet(conns) :
         Len(sent[c]) >= 3 /\ SubSeq(sent[c], 1, 3) = InitialThree(c)
  /\ pc \in BeforeDealerTurn =>
       \A c \in SeqSet(conns) : \A i \in 1..Len(sent[c]) :
         sent[c][i] # build_payload_from_server(RESULT_NOT_OVER, dealer_hand[2])

\* two players have been dealt to and the first decision has been read
C20_Witness ==
  /\ pc = "turn"
  /\ Len(conns) = 2
  /\ recvd[conns[1]] # <<>>
  /\ recvd[conns[2]] = <<>>

\* C21: there is no timeout inside a round: while it is the turn of a
\* player, the only step the coordinator can take is the one that returns
\* from the read on that player's connection (a full frame, EOF or an
\* error); until then it sends nothing, draws nothing, and does not start
\* the dealer turn, and the step that reads sends to no other player.
CoordinatorLocals ==
  <<deck, pc, conns, players_hands, dealer_hand, dealer_total, active, todo,
    sub, result, sent, failed, recvd>>

C21_Step ==
  (pc = "turn" /\ todo # <<>>) =>
    \/ UNCHANGED CoordinatorLocals
    \/ pc' = "crashed" /\ Head(todo) \in closed /\ sent' = sent
    \/ /\ recvd'[Head(todo)] # recvd[Head(todo)]
       /\ pc' \in {"turn", "bust_lock"}
       /\ \A c \in Conns \ {Head(todo)} :
            sent'[c] = sent[c] /\ recvd'[c] = recvd[c]
       /\ dealer_hand' = dealer_hand

C21_NoTimeout == [][C21_Step]_vars

\* the first player has stood and the coordinator is blocked in the read on
\* the second player's connection, which has delivered nothing
C21_Witness ==
  /\ pc = "turn"
  /\ Len(conns) = 2
  /\ todo = <<conns[2]>>
  /\ recvd[conns[1]] = <<"Stand">>
  /\ recvd[conns[2]] = <<>>
  /\ conns[2] \notin closed

\* ---------------------------------------------------------------------
\* C22: parse_payload_from_client answers "Hittt" or "Stand" only for the
\* 10-byte frame made of the magic cookie, type 0x4 and exactly the five
\* bytes of that word, and answers invalid, without failing, for every other
\* byte string (wrong length, cookie, type, or any other five bytes); the
\* coordinator handles an invalid decision as a disconnect: the player is
\* dropped, takes no further turn and is sent nothing more.
C22_Exact ==
  (pc = "turn" /\ todo # <<>>) =>
  \A data \in AllDecisionFrames \cup WrongLengthFrames \cup DecisionFrames :
    /\ parse_payload_from_client(data) \in {"Hittt", "Stand", "None"}
    /\ parse_payload_from_client(data) = "Hittt"
         <=> data = <<171, 205, 220, 186, 4, 72, 105, 116, 116, 116>>
    /\ parse_payload_from_client(data) = "Stand"
         <=> data = <<171, 205, 220, 186, 4, 83, 116, 97, 110, 100>>

C22_Step ==
  \A c \in Conns :
    (/\ pc = "turn"
     /\ Len(recvd'[c]) = Len(recvd[c]) + 1
     /\ recvd'[c][Len(recvd'[c])] = "None")
    => /\ todo # <<>> /\ Head(todo) = c /\ todo' = Tail(todo)
       /\ c \notin KeySet(remaining_rounds')
       /\ c \notin DOMAIN stats' /\ c \notin DOMAIN player_name'
       /\ c \in closed' /\ c \in failed'
       /\ c \notin SeqSet(active')
       /\ sent' = sent
       /\ pc' = "turn"

C22_Decoding == []C22_Exact /\ [][C22_Step]_vars

C22_Witness ==
  /\ pc = "turn"
  /\ recvd[1] = <<"Stand">>
  /\ Len(recvd[2]) > 1
  /\ recvd[2][1] = "Hittt" /\ recvd[2][Len(recvd[2])] = "None"
  /\ 2 \in closed /\ 2 \notin KeySet(remaining_rounds)
  /\ todo = <<>>

\* ---------------------------------------------------------------------
\* C23: _drop_player is idempotent: applied a second time to a connection
\* it has already removed (the later sends of the initial hand failing after
\* the first one did), it leaves the three maps and the closed socket as
\* they were after the first time, fails in no way (the coordinator goes on
\* with the next send), and touches no other connection's record.
C23_Idem ==
  \A c \in Conns :
    LET rr1 == DictPop(remaining_rounds, c)
        st1 == MapPop(stats, c)
        pn1 == MapPop(player_name, c)
    IN  /\ DictPop(rr1, c) = rr1
        /\ MapPop(st1, c) = st1
        /\ MapPop(pn1, c) = pn1
        /\ \A i \in 1..Len(remaining_rounds) :
             remaining_rounds[i][1] # c =>
               \E j \in 1..Len(rr1) : rr1[j] = remaining_rounds[i]
        /\ \A o \in DOMAIN stats \ {c} : o \in DOMAIN st1 /\ st1[o] = stats[o]
        /\ \A o \in DOMAIN player_name \ {c} :
             o \in DOMAIN pn1 /\ pn1[o] = player_name[o]

C23_Step ==
  (/\ pc = "init_send" /\ todo # <<>>
   /\ Head(todo) \in failed
   /\ sent' # sent)
  => /\ regVars' = regVars
     /\ closed' = closed
     /\ failed' = failed
     /\ pc' = "init_send"
     /\ IF sub = 2 THEN todo' = Tail(todo) ELSE sub' = sub + 1

C23_DropTwice == []C23_Idem /\ [][C23_Step]_vars

C23_Witness ==
  /\ pc = "init_send" /\ sub = 2
  /\ Len(conns) = 2 /\ todo = <<conns[2]>>
  /\ conns[2] \in failed /\ conns[2] \in closed
  /\ Len(sent[conns[2]]) = 2
  /\ KeySet(remaining_rounds) = {conns[1]}
  /\ DOMAIN stats = {conns[1]}

\* ---------------------------------------------------------------------
\* C24: the round decrement and the recording of an outcome, applied to a
\* connection that has already been removed, do nothing: they complete, they
\* create no entry in any of the three maps, and they leave every other
\* connection's record as it was (a snapshotted connection still registered
\* loses exactly one round, the player whose outcome is recorded gains
\* exactly that outcome).
C24_Step ==
  /\ (pc \in {"dec", "bust_stat", "settle_stat"} /\ pc' # pc) =>
       /\ KeySet(remaining_rounds') = KeySet(remaining_rounds)
       /\ DOMAIN stats' = DOMAIN stats
       /\ DOMAIN player_name' = DOMAIN player_name
       /\ player_name' = player_name
  /\ (pc = "dec" /\ pc' # pc) =>
       /\ stats' = stats
       /\ Len(remaining_rounds') = Len(remaining_rounds)
       /\ \A i \in 1..Len(remaining_rounds) :
            /\ remaining_rounds'[i][1] = remaining_rounds[i][1]
            /\ remaining_rounds'[i][2] =
                 IF remaining_rounds[i][1] \in SeqSet(conns)
                 THEN remaining_rounds[i][2] - 1
                 ELSE remaining_rounds[i][2]
       /\ (SeqSet(conns) \cap KeySet(remaining_rounds) = {}
             => remaining_rounds' = remaining_rounds)
  /\ (pc \in {"bust_stat", "settle_stat"} /\ pc' # pc) =>
       /\ remaining_rounds' = remaining_rounds
       /\ \A o \in DOMAIN stats \ {Head(todo)} : stats'[o] = stats[o]
       /\ Head(todo) \notin DOMAIN stats => stats' = stats
       /\ Head(todo) \in DOMAIN stats =>
            LET old == stats[Head(todo)]
                new == stats'[Head(todo)]
            IN  new.client_wins + new.dealer_wins + new.ties
                  = old.client_wins + old.dealer_wins + old.ties + 1

C24_RemovedNoOp == [][C24_Step]_vars

C24_Witness ==
  /\ pc = "settle"
  /\ conns = <<1, 2>> /\ todo = <<2>>
  /\ 1 \notin DOMAIN stats /\ 1 \notin KeySet(remaining_rounds)
  /\ 2 \in DOMAIN stats /\ stats[2] = RoundResults
  /\ result = RESULT_WIN

\* ---------------------------------------------------------------------
\* C25: a player whose total is above 21 is never sent a client-win or a
\* tie and is never credited one; when the round is settled, every player
\* holding more than 21 (two aces that stand included) whose sends all
\* succeeded has been sent a client-loss as its last payload.
C25_Inv ==
  \A c \in DOMAIN players_hands :
    sum_cards(players_hands[c]) > BustLimit =>
      /\ \A i \in 1..Len(sent[c]) : sent[c][i].result \notin {RESULT_WIN, RESULT_TIE}
      /\ (pc = "reap_lock" /\ c \notin failed) =>
           sent[c][Len(sent[c])].result = RESULT_LOSS

C25_Step ==
  \A c \in DOMAIN players_hands \cap DOMAIN stats \cap DOMAIN stats' :
    sum_cards(players_hands[c]) > BustLimit =>
      /\ stats'[c].client_wins = stats[c].client_wins
      /\ stats'[c].ties = stats[c].ties

C25_BustNeverWins == []C25_Inv /\ [][C25_Step]_vars

\* ---------------------------------------------------------------------
\* C26: whenever the coordinator takes its snapshot, every record of the
\* registry has at least one round left, so the snapshot is the whole
\* registry in its order, is not empty, and the round goes on to the deal:
\* the branch for an empty snapshot is never taken.
C26_Inv ==
  pc = "wait_check" =>
    \A i \in 1..Len(remaining_rounds) : remaining_rounds[i][2] >= 1

C26_Step ==
  (pc = "wait_check" /\ pc' \notin {"wait_check", "waiting"}) =>
    /\ conns' = DictKeys(remaining_rounds)
    /\ conns' # <<>>
    /\ pc' = "deal"

C26_FullSnapshot == []C26_Inv /\ [][C26_Step]_vars

C26_Witness ==
  /\ pc = "deal"
  /\ Len(conns) = 2
  /\ conns = DictKeys(remaining_rounds)
  /\ \E c \in SeqSet(conns) : consumed[c] = 1

\* ---------------------------------------------------------------------
\* C27: only the coordinator removes registry entries or changes the rounds
\* or stats of an existing record; a step of an enrollment thread changes the
\* registry at most by appending the entries of its own connection, which was
\* not registered before; and while the coordinator iterates over
\* remaining_rounds (the snapshot and the reaping scan, both inside the
\* lock) no step of any enrollment thread changes the registry.
EnrollStep == epc' # epc
Scanning == pc \in {"wait_check", "reap_scan"}

C27_Step ==
  /\ EnrollStep =>
       /\ pc' = pc
       /\ \A i \in 1..Len(remaining_rounds) :
            i <= Len(remaining_rounds') /\ remaining_rounds'[i] = remaining_rounds[i]
       /\ \A o \in DOMAIN stats : o \in DOMAIN stats' /\ stats'[o] = stats[o]
       /\ \A o \in DOMAIN player_name :
            o \in DOMAIN player_name' /\ player_name'[o] = player_name[o]
       /\ \A c \in KeySet(remaining_rounds') \ KeySet(remaining_rounds) :
            /\ epc[c] = "locked" /\ epc'[c] # "locked"
            /\ KeySet(remaining_rounds') = KeySet(remaining_rounds) \cup {c}
            /\ DOMAIN stats' = DOMAIN stats \cup {c}
            /\ c \notin DOMAIN stats
  /\ (Scanning /\ EnrollStep) => regVars' = regVars
  /\ (Scanning /\ ~EnrollStep /\ pc' = pc) => UNCHANGED vars

C27_SingleWriter == [][C27_Step]_vars

C27_Witness ==
  /\ pc = "reap_scan" /\ lock = "coord"
  /\ epc[2] = "parsed"
  /\ KeySet(remaining_rounds) = {1}
  /\ remaining_rounds[1][2] = 0

\* ---------------------------------------------------------------------
\* C28: the client's round loop and the board stay in lock-step: when a
\* round of the client is over, the client has read at least one payload,
\* the last one it read is a terminal payload (win, loss or tie), and what it
\* read is what the server has sent to it in the round, in order.
ClientRoundOver(c) == client[c].pc \in {"raised", "round_over"}

C28_LockStep ==
  \A c \in Conns :
    ClientRoundOver(c) =>
      LET got == client[c].got
      IN  /\ got # <<>>
          /\ got[Len(got)].result # RESULT_NOT_OVER
          /\ \A i \in 1..Len(got) - 1 : got[i].result = RESULT_NOT_OVER
          /\ (sent[c] # <<>> /\ c \notin failed) => got = sent[c]

\* ---------------------------------------------------------------------
\* C29: all cards held in the hands of one round, the players' hands with
\* their hit cards and the dealer's hand with its hits, are pairwise
\* distinct (rank, suit) pairs, for any number of players and hits.
HandOf(h) == IF h = 0 THEN dealer_hand ELSE players_hands[h]

C29_RoundDistinct ==
  \A h1, h2 \in DOMAIN players_hands \cup {0} :
    \A i \in 1..Len(HandOf(h1)), j \in 1..Len(HandOf(h2)) :
      (h1 # h2 \/ i # j) => HandOf(h1)[i] # HandOf(h2)[j]

====
